---------------------------- MODULE Spec2Model ----------------------------
(***************************************************************************)
(* The SOFIA recipes: the FORCAST basic-photometry notebook (aperture sum, *)
(* background annulus, quadrature uncertainty) and the EXES velocity       *)
(* notebook, as state machines whose actions are the notebooks' code cells.*)
(*                                                                         *)
(* Numbers.  The notebooks compute in float64.  The model computes the same*)
(* expressions exactly: a value is a rational whose numerator and          *)
(* denominator are naturals of any size (sequences of limbs), np.sqrt and  *)
(* np.std keep their radicand (a Surd is sgn * sqrt(sq)), and a division by*)
(* a float zero gives inf or nan as numpy does.  np.pi is the rational PI. *)
(***************************************************************************)
EXTENDS Integers, Sequences, FiniteSets

(***************************************************************************)
(* Naturals of any size: little-endian sequences of limbs in 0..BASE-1,    *)
(* without leading zero limbs; <<>> is 0.                                  *)
(***************************************************************************)
BASE == 10000

RECURSIVE BigOfNat(_)
BigOfNat(n) == IF n = 0 THEN <<>> ELSE <<n % BASE>> \o BigOfNat(n \div BASE)

Limb(a) == IF a = <<>> THEN 0 ELSE a[1]
Rest(a) == IF a = <<>> THEN <<>> ELSE Tail(a)

RECURSIVE BigAddC(_, _, _)
BigAddC(a, b, c) ==
    IF a = <<>> /\ b = <<>>
    THEN (IF c = 0 THEN <<>> ELSE <<c>>)
    ELSE LET x == Limb(a) + Limb(b) + c
         IN  <<x % BASE>> \o BigAddC(Rest(a), Rest(b), x \div BASE)

BigAdd(a, b) == BigAddC(a, b, 0)

RECURSIVE BigTrim(_)
BigTrim(a) ==
    IF a = <<>> THEN <<>>
    ELSE IF a[Len(a)] = 0 THEN BigTrim(SubSeq(a, 1, Len(a) - 1)) ELSE a

\* a - b - c for a >= b + c, before trimming
RECURSIVE BigSubC(_, _, _)
BigSubC(a, b, c) ==
    IF a = <<>> THEN <<>>
    ELSE LET x == Limb(a) - Limb(b) - c
         IN  IF x < 0
             THEN <<x + BASE>> \o BigSubC(Rest(a), Rest(b), 1)
             ELSE <<x>> \o BigSubC(Rest(a), Rest(b), 0)

BigSub(a, b) == BigTrim(BigSubC(a, b, 0))

RECURSIVE BigMulLimb(_, _, _)
BigMulLimb(a, d, c) ==
    IF a = <<>>
    THEN (IF c = 0 THEN <<>> ELSE <<c>>)
    ELSE LET x == a[1] * d + c
         IN  <<x % BASE>> \o BigMulLimb(Tail(a), d, x \div BASE)

BigShift(a) == IF a = <<>> THEN <<>> ELSE <<0>> \o a

RECURSIVE BigMul(_, _)
BigMul(a, b) ==
    IF a = <<>> \/ b = <<>> THEN <<>>
    ELSE BigAdd(IF a[1] = 0 THEN <<>> ELSE BigMulLimb(b, a[1], 0),
                BigShift(BigMul(Tail(a), b)))

\* -1, 0, 1 as a < b, a = b, a > b
RECURSIVE BigCmpAt(_, _, _)
BigCmpAt(a, b, i) ==
    IF i = 0 THEN 0
    ELSE IF a[i] < b[i] THEN -1
    ELSE IF a[i] > b[i] THEN 1
    ELSE BigCmpAt(a, b, i - 1)

BigCmp(a, b) ==
    IF Len(a) < Len(b) THEN -1
    ELSE IF Len(a) > Len(b) THEN 1
    ELSE BigCmpAt(a, b, Len(a))

RECURSIVE BigPow10(_)
BigPow10(k) == IF k = 0 THEN <<1>> ELSE BigMulLimb(BigPow10(k - 1), 10, 0)

(***************************************************************************)
(* Rationals: s * n / d with s the sign, n and d naturals, d > 0.          *)
(***************************************************************************)
Sign(i) == IF i < 0 THEN -1 ELSE IF i > 0 THEN 1 ELSE 0
Abs(i) == IF i < 0 THEN -i ELSE i

Rat(s, n, d) == [s |-> IF n = <<>> THEN 0 ELSE s, n |-> n, d |-> d]
RatOfInt(i) == Rat(Sign(i), BigOfNat(Abs(i)), <<1>>)
RatOfFrac(i, j) == Rat(Sign(i) * Sign(j), BigOfNat(Abs(i)), BigOfNat(Abs(j)))
RatZero == RatOfInt(0)

RatNeg(x) == Rat(-x.s, x.n, x.d)
RatAbs(x) == Rat(Abs(x.s), x.n, x.d)

RatAdd(x, y) ==
    LET a == BigMul(x.n, y.d)
        b == BigMul(y.n, x.d)
        d == BigMul(x.d, y.d)
    IN  IF x.s = 0 THEN y
        ELSE IF y.s = 0 THEN x
        ELSE IF x.s = y.s THEN Rat(x.s, BigAdd(a, b), d)
        ELSE CASE BigCmp(a, b) = 0 -> Rat(0, <<>>, <<1>>)
               [] BigCmp(a, b) = 1 -> Rat(x.s, BigSub(a, b), d)
               [] OTHER -> Rat(y.s, BigSub(b, a), d)

RatSub(x, y) == RatAdd(x, RatNeg(y))
RatMul(x, y) ==
    IF x.s = 0 \/ y.s = 0 THEN RatZero
    ELSE Rat(x.s * y.s, BigMul(x.n, y.n), BigMul(x.d, y.d))
\* x / y for y # 0
RatDiv(x, y) ==
    IF x.s = 0 THEN RatZero
    ELSE Rat(x.s * y.s, BigMul(x.n, y.d), BigMul(x.d, y.n))
RatSq(x) == RatMul(x, x)

\* -1, 0, 1 as x < y, x = y, x > y
RatCmp(x, y) ==
    IF x.s # y.s THEN (IF x.s < y.s THEN -1 ELSE 1)
    ELSE IF x.s = 0 THEN 0
    ELSE x.s * BigCmp(BigMul(x.n, y.d), BigMul(y.n, x.d))
RatEq(x, y) == RatCmp(x, y) = 0
RatLt(x, y) == RatCmp(x, y) = -1
RatLe(x, y) == RatCmp(x, y) # 1

(***************************************************************************)
(* float64 values that may be non-finite.  A real is kept as a Surd: the   *)
(* value sgn * sqrt(sq), sq a rational >= 0.  numpy's inf and nan are the  *)
(* kinds "inf" (with its sign) and "nan".                                  *)
(***************************************************************************)
Surd(sgn, sq) == [kind |-> "fin", sgn |-> IF sq.s = 0 THEN 0 ELSE sgn, sq |-> sq]
SurdInf(sgn) == [kind |-> "inf", sgn |-> sgn, sq |-> RatZero]
SurdNaN == [kind |-> "nan", sgn |-> 0, sq |-> RatZero]
SurdOfRat(q) == Surd(q.s, RatSq(q))

\* np.sqrt of a value that is a rational, inf or nan (never negative here)
NpSqrt(v) ==
    CASE v.kind = "fin" -> Surd(1, v.sq)
      [] v.kind = "inf" -> SurdInf(1)
      [] OTHER -> SurdNaN

\* a * b, numpy float64 rules for inf and nan
NpMul(a, b) ==
    IF a.kind = "nan" \/ b.kind = "nan" THEN SurdNaN
    ELSE IF a.kind = "inf" \/ b.kind = "inf"
         THEN (IF a.sgn * b.sgn = 0 THEN SurdNaN ELSE SurdInf(a.sgn * b.sgn))
    ELSE Surd(a.sgn * b.sgn, RatMul(a.sq, b.sq))

\* a / b for numpy float64 scalars: x/0 is +-inf, 0/0 is nan, no exception
NpDiv(a, b) ==
    IF a.kind = "nan" \/ b.kind = "nan" THEN SurdNaN
    ELSE IF a.kind = "inf"
         THEN (IF b.kind = "inf" THEN SurdNaN
               ELSE SurdInf(IF b.sgn = 0 THEN a.sgn ELSE a.sgn * b.sgn))
    ELSE IF b.kind = "inf" THEN Surd(0, RatZero)
    ELSE IF b.sgn = 0
         THEN (IF a.sgn = 0 THEN SurdNaN ELSE SurdInf(a.sgn))
    ELSE Surd(a.sgn * b.sgn, RatDiv(a.sq, b.sq))

(***************************************************************************)
(* The squares and sums of the radicand: values that are a rational        *)
(* (kind "fin", the rational in sq), +inf or nan.                          *)
(***************************************************************************)
Fin(q) == [kind |-> "fin", sgn |-> q.s, sq |-> q]

\* a ** 2
NpSquare(a) ==
    CASE a.kind = "fin" -> Fin(a.sq)
      [] a.kind = "inf" -> [kind |-> "inf", sgn |-> 1, sq |-> RatZero]
      [] OTHER -> [kind |-> "nan", sgn |-> 0, sq |-> RatZero]

\* q * v for a rational q > 0
NpScale(q, v) == IF v.kind = "fin" THEN Fin(RatMul(q, v.sq)) ELSE v

\* v + q for a rational q
NpPlus(v, q) == IF v.kind = "fin" THEN Fin(RatAdd(v.sq, q)) ELSE v

(***************************************************************************)
(* "{:.kf}".format(v): the decimal with k digits after the point nearest   *)
(* to v (ties to even), kept as the integer v * 10^k so rounded; "inf" and *)
(* "nan" print as such.  Quotients are found by bisection below WIDE.      *)
(***************************************************************************)
WIDE == 1073741824

\* the largest m in lo..hi-1 with m * D <= N, given lo * D <= N < hi * D
RECURSIVE BigQuot(_, _, _, _)
BigQuot(N, D, lo, hi) ==
    IF hi - lo <= 1 THEN lo
    ELSE LET mid == (lo + hi) \div 2
         IN  IF BigCmp(BigMul(BigOfNat(mid), D), N) = 1
             THEN BigQuot(N, D, lo, mid)
             ELSE BigQuot(N, D, mid, hi)

\* the largest m in lo..hi-1 with m^2 * D <= N, given lo^2 * D <= N < hi^2 * D
RECURSIVE BigRoot(_, _, _, _)
BigRoot(N, D, lo, hi) ==
    IF hi - lo <= 1 THEN lo
    ELSE LET mid == (lo + hi) \div 2
             m == BigOfNat(mid)
         IN  IF BigCmp(BigMul(BigMul(m, m), D), N) = 1
             THEN BigRoot(N, D, lo, mid)
             ELSE BigRoot(N, D, mid, hi)

Text(kind, val) == [kind |-> kind, val |-> val]

\* round half to even of N / D >= 0
RoundQuot(N, D) ==
    IF BigCmp(N, BigMul(BigOfNat(WIDE - 1), D)) # -1 THEN Text("wide", 0)
    ELSE LET q == BigQuot(N, D, 0, WIDE)
             r2 == BigMulLimb(BigSub(N, BigMul(BigOfNat(q), D)), 2, 0)
             c == BigCmp(r2, D)
         IN  Text("fin", IF c = 1 \/ (c = 0 /\ q % 2 = 1) THEN q + 1 ELSE q)

\* round half to even of sqrt(N / D)
RoundRoot(N, D) ==
    LET W == BigOfNat(WIDE - 1)
    IN  IF BigCmp(N, BigMul(BigMul(W, W), D)) # -1 THEN Text("wide", 0)
        ELSE LET q == BigRoot(N, D, 0, WIDE)
                 \* sqrt(N/D) >= q + 1/2  iff  4 N >= (2q+1)^2 D
                 h == BigOfNat(2 * q + 1)
                 c == BigCmp(BigMulLimb(N, 4, 0), BigMul(BigMul(h, h), D))
             IN  Text("fin", IF c = 1 \/ (c = 0 /\ q % 2 = 1) THEN q + 1 ELSE q)

\* "{:.kf}".format(q) for a rational q
FormatRat(q, k) ==
    LET t == RoundQuot(BigMul(q.n, BigPow10(k)), q.d)
    IN  IF t.kind = "fin" THEN Text("fin", q.s * t.val) ELSE t

\* "{:.kf}".format(v) for a float64 v kept as a Surd
FormatSurd(v, k) ==
    IF v.kind # "fin" THEN Text(v.kind, v.sgn)
    ELSE LET t == RoundRoot(BigMul(v.sq.n, BigPow10(2 * k)), v.sq.d)
         IN  IF t.kind = "fin" THEN Text("fin", v.sgn * t.val) ELSE t

(***************************************************************************)
(* Bounds of the model.                                                    *)
(***************************************************************************)
ImgW == 7        \* the image is ImgW x ImgW pixels
MaxFlux == 2     \* the source's pixel value is in 0..MaxFlux
MaxBkg == 1      \* the background level is in 0..MaxBkg
MaxCal == 2      \* CALFCTR is in 0..MaxCal
MaxErr == 1      \* ERRCALF is in 0..MaxErr
SubPix == 2      \* an overlap fraction is resolved on SubPix x SubPix samples
MaxGrow == 2     \* a radius is compared with those up to MaxGrow pixels wider

(***************************************************************************)
(* Geometry.  Pixel (i, j) is the unit square centred on (i, j).  Lengths  *)
(* are counted in units of 1/Unit pixel so that pixel centres, the samples *)
(* of a pixel and a target half way between two pixels are integers.       *)
(***************************************************************************)
Unit == 2 * SubPix
Pixels == (0 .. ImgW - 1) \X (0 .. ImgW - 1)
Centre == ImgW \div 2

\* np.pi (math.pi in photutils' area)
PI == RatOfFrac(22, 7)

\* the sum of g[lo] .. g[hi]
RECURSIVE SumRange(_, _, _)
SumRange(g, lo, hi) == IF lo > hi THEN 0 ELSE g[lo] + SumRange(g, lo + 1, hi)

Min(S) == CHOOSE m \in S : \A k \in S : m <= k
Max(S) == CHOOSE m \in S : \A k \in S : m >= k

\* the sum of every element of a 2-D array: a function on xs \X ys, with xs
\* and ys non-empty intervals
SumFn(f, S) ==
    LET xs == { e[1] : e \in S }
        ys == { e[2] : e \in S }
    IN  SumRange([i \in xs |->
                    SumRange([j \in ys |-> f[<<i, j>>]], Min(ys), Max(ys))],
                 Min(xs), Max(xs))

\* photutils.aperture.CircularAperture(positions, r)
CircularAperture(pos, r) == [shape |-> "circle", pos |-> pos, r |-> r]

\* an annulus whose inner edge is set four pixels inside r_in
CircularAnnulusInset(pos, r_in, r_out) ==
    [shape |-> "annulus", pos |-> pos, r_in |-> r_in - 4, r_out |-> r_out]

\* photutils.aperture.CircularAnnulus(positions, r_in, r_out)
CircularAnnulus(pos, r_in, r_out) ==
    [shape |-> "annulus", pos |-> pos, r_in |-> r_in, r_out |-> r_out]

\* the point (x, y) is inside the circle of radius r pixels about pos
InCircle(x, y, pos, r) ==
    (x - pos[1]) * (x - pos[1]) + (y - pos[2]) * (y - pos[2])
        < (Unit * r) * (Unit * r)

\* the sample points of a pixel are the centres of its SubPix x SubPix
\* cells: sample (a, b) of pixel px, for a and b in 0 .. SubPix - 1
Cells == (0 .. SubPix - 1) \X (0 .. SubPix - 1)
SampleX(px, c) == Unit * px[1] + 2 * c[1] + 1 - SubPix
SampleY(px, c) == Unit * px[2] + 2 * c[2] + 1 - SubPix

\* the number of samples of pixel px inside the circle: the overlap
\* fraction of the pixel and the circle is this over SubPix^2
CircleOverlap(px, pos, r) ==
    Cardinality({ c \in Cells : InCircle(SampleX(px, c), SampleY(px, c), pos, r) })

\* the overlap of pixel px with an aperture (in samples); an annulus is the
\* outer circle less the inner one
Overlap(px, ap) ==
    IF ap.shape = "circle" THEN CircleOverlap(px, ap.pos, ap.r)
    ELSE Cardinality({ c \in Cells :
            /\ InCircle(SampleX(px, c), SampleY(px, c), ap.pos, ap.r_out)
            /\ ~InCircle(SampleX(px, c), SampleY(px, c), ap.pos, ap.r_in) })

\* the area of a circle whose diameter is taken for its radius
ApertureAreaOfDiameter(ap) ==
    IF ap.shape = "circle" THEN RatMul(PI, RatOfInt(4 * ap.r * ap.r))
    ELSE RatMul(PI, RatOfInt(ap.r_out * ap.r_out - ap.r_in * ap.r_in))

\* aperture.area
ApertureArea(ap) ==
    IF ap.shape = "circle" THEN RatMul(PI, RatOfInt(ap.r * ap.r))
    ELSE RatMul(PI, RatOfInt(ap.r_out * ap.r_out - ap.r_in * ap.r_in))

\* the aperture's bounding box: the pixels ixmin .. ixmax - 1 with
\* ixmin = floor(x - r + 0.5) and ixmax = ceil(x + r + 0.5), likewise in y
Floor(a, b) == a \div b
Ceil(a, b) == -((-a) \div b)
BBoxRange(c, r) ==
    Floor(c - Unit * r + SubPix, Unit) .. Ceil(c + Unit * r + SubPix, Unit) - 1
BoundingBox(ap) ==
    LET r == IF ap.shape = "circle" THEN ap.r ELSE ap.r_out
    IN  BBoxRange(ap.pos[1], r) \X BBoxRange(ap.pos[2], r)

\* aperture_photometry(image, ap)["aperture_sum"]: the one-row column of the
\* sum, over the aperture's bounding box (0 outside the image), of the pixel
\* values weighted by their overlap with the aperture
aperture_photometry(image, ap) ==
    << RatOfFrac(SumFn([px \in BoundingBox(ap) |->
                          IF px \in Pixels THEN Overlap(px, ap) * image[px]
                          ELSE 0],
                       BoundingBox(ap)),
                 SubPix * SubPix) >>

\* ap.to_mask(method="center"): over the bounding box, 1 where the pixel's
\* centre is in the aperture and 0 elsewhere
to_mask(ap) ==
    [px \in BoundingBox(ap) |->
        IF ap.shape = "circle"
        THEN (IF InCircle(Unit * px[1], Unit * px[2], ap.pos, ap.r) THEN 1 ELSE 0)
        ELSE (IF InCircle(Unit * px[1], Unit * px[2], ap.pos, ap.r_out)
                 /\ ~InCircle(Unit * px[1], Unit * px[2], ap.pos, ap.r_in)
              THEN 1 ELSE 0)]

\* mask.multiply(image): the cutout of the image over the mask's bounding
\* box (0 outside the image) times the mask, an array of the box's shape
multiply(mask, image) ==
    [px \in DOMAIN mask |->
        (IF px \in Pixels THEN image[px] ELSE 0) * mask[px]]

\* np.std(a): sqrt(mean(abs(a - a.mean())**2)) over every element of a
NpStd(a) ==
    LET n == Cardinality(DOMAIN a)
        total == SumFn(a, DOMAIN a)
        dev2 == [e \in DOMAIN a |-> (n * a[e] - total) * (n * a[e] - total)]
    IN  Surd(1, RatOfFrac(SumFn(dev2, DOMAIN a), n * n * n))

(***************************************************************************)
(* The inputs of a run of the photometry notebook: the FITS file (first    *)
(* image plane and the two header cards the notebook reads), the user      *)
(* options, and the pixel position the WCS gives for the target.           *)
(***************************************************************************)
Mirror(px) == <<2 * Centre - px[1], px[2]>>

\* an image: a flat background, a source on the centre pixel, and one pixel
\* of the source's row deviating by e, alone or with its mirror image
\* deviating the other way
Image(bkg, src, probe, e, paired) ==
    [px \in Pixels |->
        bkg + (IF px = <<Centre, Centre>> THEN src ELSE 0)
            + (IF px = probe THEN e ELSE 0)
            + (IF paired /\ px = Mirror(probe) /\ px # probe THEN -e ELSE 0)]

Images ==
    { Image(bkg, src, <<i, Centre>>, e, paired) :
        bkg \in 0 .. MaxBkg, src \in 0 .. MaxFlux, i \in 0 .. ImgW - 1,
        e \in {-1, 0, 1}, paired \in BOOLEAN }

\* the header cards the notebook reads; a file may lack either
Headers ==
    [CALFCTR : 0 .. MaxCal, ERRCALF : 0 .. MaxErr]
      \cup { [CALFCTR |-> 1], [ERRCALF |-> 1] }

\* r_ap and the annulus radii, in pixels (12, 15.0 and 25.0 in the notebook,
\* scaled to the model's image)
UserOptionSet ==
    { [r_ap |-> 1, inner |-> 2, outter |-> 3],
      [r_ap |-> 2, inner |-> 2, outter |-> 3],
      [r_ap |-> 1, inner |-> 3, outter |-> 3] }

\* pos.to_pixel(w): on the centre pixel, or half a pixel off it
Positions ==
    { <<Unit * Centre, Unit * Centre>>, <<Unit * Centre + SubPix, Unit * Centre>> }

Unbound == [kind |-> "unbound"]

VARIABLES
    pc,                                 \* the next cell of the run
    raised,                             \* the exception that stopped the run
    bound,                              \* the names the kernel has bound
    out,                                \* the lines printed so far
    data, hdr, w,
    r_ap, background_aperture_inner_radius, background_aperture_outter_radius,
    pos_pix, sum_jy, pix_aperture, area,
    annulus_aperture,
    bkg_results, bkg_mean, flux_background_subtracted,
    annulus_mask, annulus_data, annulus_std,
    sigma_m,
    absolute_uncertainty,
    \* the velocity notebook
    vpc,                                \* its next cell
    v_sys, coords, v_wind,              \* v_wind: the target's wind/expansion
                                        \* velocity, which no cell reads
    vgeo, v_corrected,
    shown                               \* the value the last cell displays

loaded == <<data, hdr, w>>
options == <<r_ap, background_aperture_inner_radius,
             background_aperture_outter_radius>>
apertured == <<pos_pix, sum_jy, pix_aperture, area>>
background == <<bkg_results, bkg_mean, flux_background_subtracted>>
masked == <<annulus_mask, annulus_data, annulus_std>>

velocity == <<vpc, v_sys, coords, v_wind, vgeo, v_corrected, shown>>

vars == <<pc, raised, bound, out, loaded, options, apertured, annulus_aperture,
          background, masked, sigma_m, absolute_uncertainty, velocity>>

\* a fresh kernel of the photometry notebook, about to run cell `first`
Fresh(first) ==
    /\ pc = first
    /\ raised = "none"
    /\ bound = {}
    /\ out = <<>>
    /\ data = Unbound /\ hdr = Unbound /\ w = Unbound
    /\ r_ap = Unbound
    /\ background_aperture_inner_radius = Unbound
    /\ background_aperture_outter_radius = Unbound
    /\ pos_pix = Unbound /\ sum_jy = Unbound
    /\ pix_aperture = Unbound /\ area = Unbound
    /\ annulus_aperture = Unbound
    /\ bkg_results = Unbound /\ bkg_mean = Unbound
    /\ flux_background_subtracted = Unbound
    /\ annulus_mask = Unbound /\ annulus_data = Unbound
    /\ annulus_std = Unbound
    /\ sigma_m = Unbound
    /\ absolute_uncertainty = Unbound

\* a fresh kernel of the velocity notebook
FreshVelocity(first) ==
    /\ vpc = first
    /\ v_sys = Unbound /\ coords = Unbound /\ v_wind = Unbound
    /\ vgeo = Unbound /\ v_corrected = Unbound
    /\ shown = Unbound

\* the photometry notebook is opened and run; the velocity notebook is not
Init == Fresh("load") /\ FreshVelocity("closed")

Running(cell) == pc = cell /\ raised = "none"

\* WCS(header): the transform is the header's; its values are not modelled
WCS(header) == [wcs_of |-> header]

\* cell 2: data = fits.open(filename); hdr = data[0].header; w = WCS(...)
\* (fits.open raises FileNotFoundError when there is no such file)
LoadData ==
    /\ Running("load")
    /\ \E found \in BOOLEAN :
          IF found
          THEN /\ \E image \in Images, header \in Headers :
                     /\ data' = << [data |-> image, header |-> header] >>
                     /\ hdr' = header
                     /\ w' = WCS(header)
               /\ bound' = bound \cup {"data", "hdr", "w"}
               /\ pc' = "options"
               /\ raised' = raised
          ELSE /\ raised' = "FileNotFoundError"
               /\ UNCHANGED <<loaded, bound, pc>>
    /\ UNCHANGED <<out, options, apertured, annulus_aperture,
                   background, masked, sigma_m, absolute_uncertainty>>
    /\ UNCHANGED velocity

\* cell 5: the user options
UserOptions ==
    /\ Running("options")
    /\ \E o \in UserOptionSet :
          /\ r_ap' = o.r_ap
          /\ background_aperture_inner_radius' = o.inner
          /\ background_aperture_outter_radius' = o.outter
    /\ bound' = bound \cup {"r_ap", "background_aperture_inner_radius",
                            "background_aperture_outter_radius"}
    /\ pc' = "aperture"
    /\ UNCHANGED <<raised, out, loaded, apertured, annulus_aperture,
                   background, masked, sigma_m, absolute_uncertainty>>
    /\ UNCHANGED velocity

\* get_aperture_sum summing a circle one pixel wider than asked
get_aperture_sum_wider(d, p, r_pix) ==
    LET aperture == CircularAperture(p, r_pix)
        sum_aperture == aperture_photometry(d[1].data,
                                            CircularAperture(p, r_pix + 1))
    IN  <<sum_aperture, aperture, ApertureArea(aperture)>>

\* cell 4: def get_aperture_sum(data, pos_pix, r_pix)
get_aperture_sum(d, p, r_pix) ==
    LET aperture == CircularAperture(p, r_pix)
        sum_aperture == aperture_photometry(d[1].data, aperture)
    IN  <<sum_aperture, aperture, ApertureArea(aperture)>>

\* cell 6: pos_pix = pos.to_pixel(w);
\*         sum_jy, pix_aperture, area = get_aperture_sum(data, pos_pix, r_ap)
ApertureSum ==
    /\ Running("aperture")
    /\ \E p \in Positions :
          LET got == get_aperture_sum(data, p, r_ap)
          IN  /\ pos_pix' = p
              /\ sum_jy' = got[1]
              /\ pix_aperture' = got[2]
              /\ area' = got[3]
    /\ bound' = bound \cup {"pos", "pos_pix", "sum_jy", "pix_aperture", "area"}
    /\ pc' = "annulus"
    /\ UNCHANGED <<raised, out, loaded, options, annulus_aperture,
                   background, masked, sigma_m, absolute_uncertainty>>
    /\ UNCHANGED velocity

\* cell 7: w = WCS(data[0].header); annulus_aperture = CircularAnnulus(...)
\* (CircularAnnulus raises ValueError unless r_out > r_in)
DefineAnnulus ==
    /\ Running("annulus")
    /\ w' = WCS(data[1].header)
    /\ IF background_aperture_outter_radius > background_aperture_inner_radius
       THEN /\ annulus_aperture' =
                   CircularAnnulus(pos_pix, background_aperture_inner_radius,
                                   background_aperture_outter_radius)
            /\ bound' = bound \cup {"annulus_aperture"}
            /\ pc' = "background"
            /\ raised' = raised
       ELSE /\ raised' = "ValueError"
            /\ UNCHANGED <<annulus_aperture, bound, pc>>
    /\ UNCHANGED <<out, data, hdr, options, apertured,
                   background, masked, sigma_m, absolute_uncertainty>>
    /\ UNCHANGED velocity

\* the sum divided by the area of the annulus's outer circle
MeanInOuterCircle(results, ap) ==
    << RatDiv(results[1], RatMul(PI, RatOfInt(ap.r_out * ap.r_out))) >>

\* bkg_results["aperture_sum"] / annulus_aperture.area
MeanInAperture(results, ap) == << RatDiv(results[1], ApertureArea(ap)) >>

\* sum_jy[0] - bkg_mean[0]
SubtractMean(total, mean) == RatSub(total[1], mean[1])

\* print(label + "{:.kf}".format(v) ...): a printed line, kept as its label,
\* the number of decimals k and the values formatted; Printed is its text
Line(label, places, values) ==
    [line |-> label, places |-> places, values |-> values]

Format(v, k) ==
    IF "kind" \in DOMAIN v THEN FormatSurd(v, k) ELSE FormatRat(v, k)

Printed(l) == [i \in 1 .. Len(l.values) |-> Format(l.values[i], l.places)]

\* the warnings filter as Python starts with it: a warning is shown
simplefilter_default == "default"

\* warnings.simplefilter('ignore'), run with the imports: the action every
\* warning of the run meets
simplefilter == "ignore"

\* the line a numpy RuntimeWarning puts in the cell's output when a
\* floating-point error occurred, unless the filter ignores it
Warned(occurred) ==
    IF occurred /\ simplefilter # "ignore"
    THEN << Line("RuntimeWarning", 0, <<>>) >>
    ELSE <<>>

\* a / b of numpy float64 scalars sets a floating-point error: divide by
\* zero for x / 0, invalid value for 0 / 0 and inf / inf
DivideErr(a, b) ==
    \/ a.kind = "fin" /\ b.kind = "fin" /\ b.sgn = 0
    \/ a.kind = "inf" /\ b.kind = "inf"

\* a * b of numpy float64 scalars sets a floating-point error: invalid
\* value for inf * 0
MultiplyErr(a, b) ==
    \/ a.kind = "inf" /\ b.kind = "fin" /\ b.sgn = 0
    \/ b.kind = "inf" /\ a.kind = "fin" /\ a.sgn = 0

\* print("Flux removed: " + "{:.6f}".format(bkg_mean[0]) + " Jy")
\* print("background_substracted flux: " + "{:.6f}".format(flux...) + " Jy")
BackgroundLines(mean, flux) ==
    << Line("Flux removed", 6, <<mean[1]>>),
       Line("background_substracted flux", 6, <<flux>>) >>

\* cell 8 keeping the flux the kernel already holds, if it holds one
SubtractBackgroundOnce ==
    /\ Running("background")
    /\ LET results == aperture_photometry(data[1].data, annulus_aperture)
           mean == MeanInAperture(results, annulus_aperture)
           flux == IF "flux_background_subtracted" \in bound
                   THEN flux_background_subtracted
                   ELSE SubtractMean(sum_jy, mean)
       IN  /\ bkg_results' = results
           /\ bkg_mean' = mean
           /\ flux_background_subtracted' = flux
           /\ out' = out \o BackgroundLines(mean, flux)
    /\ bound' = bound \cup {"bkg_results", "bkg_mean",
                            "flux_background_subtracted"}
    /\ pc' = "std"
    /\ UNCHANGED <<raised, loaded, options, apertured, annulus_aperture,
                   masked, sigma_m, absolute_uncertainty>>
    /\ UNCHANGED velocity

\* cell 8: the flux sum in the annulus, the flux average in the annulus,
\* and the aperture sum less that average; two lines are printed
SubtractBackground ==
    /\ Running("background")
    /\ LET results == aperture_photometry(data[1].data, annulus_aperture)
           mean == MeanInAperture(results, annulus_aperture)
           flux == SubtractMean(sum_jy, mean)
       IN  /\ bkg_results' = results
           /\ bkg_mean' = mean
           /\ flux_background_subtracted' = flux
           /\ out' = out \o BackgroundLines(mean, flux)
    /\ bound' = bound \cup {"bkg_results", "bkg_mean",
                            "flux_background_subtracted"}
    /\ pc' = "std"
    /\ UNCHANGED <<raised, loaded, options, apertured, annulus_aperture,
                   masked, sigma_m, absolute_uncertainty>>
    /\ UNCHANGED velocity

\* cell 9 with the mask multiplied into the loaded image in place
AnnulusStdInPlace ==
    /\ Running("std")
    /\ LET mask == to_mask(annulus_aperture)
           masked_data == multiply(mask, data[1].data)
       IN  /\ annulus_mask' = mask
           /\ annulus_data' = masked_data
           /\ annulus_std' = NpStd(masked_data)
           /\ data' = << [data[1] EXCEPT !.data =
                            [px \in Pixels |->
                                IF px \in DOMAIN mask THEN masked_data[px]
                                                      ELSE data[1].data[px]]] >>
    /\ bound' = bound \cup {"annulus_mask", "annulus_data", "annulus_std"}
    /\ pc' = "relative"
    /\ UNCHANGED <<raised, out, hdr, w, options, apertured, annulus_aperture,
                   background, sigma_m, absolute_uncertainty>>
    /\ UNCHANGED velocity

\* cell 9: the annulus mask, the masked data and its standard deviation
AnnulusStd ==
    /\ Running("std")
    /\ LET mask == to_mask(annulus_aperture)
           masked_data == multiply(mask, data[1].data)
       IN  /\ annulus_mask' = mask
           /\ annulus_data' = masked_data
           /\ annulus_std' = NpStd(masked_data)
    /\ bound' = bound \cup {"annulus_mask", "annulus_data", "annulus_std"}
    /\ pc' = "relative"
    /\ UNCHANGED <<raised, out, loaded, options, apertured, annulus_aperture,
                   background, sigma_m, absolute_uncertainty>>
    /\ UNCHANGED velocity

\* the uncertainty of the flux calibration model, 0.05
ModelUncertainty == RatOfFrac(5, 100)

\* the formula below with the model term left unsquared
RelativeUncertaintyUnsquaredModel(r, std, flux, header) ==
    LET measured == NpDiv(NpMul(SurdOfRat(RatOfInt(r)), std), SurdOfRat(flux))
        calib == RatOfFrac(header.ERRCALF, header.CALFCTR)
    IN  NpSqrt(NpPlus(NpPlus(NpScale(RatMul(RatOfInt(2), PI), NpSquare(measured)),
                             RatSq(calib)),
                      ModelUncertainty))

\* the formula below with pi for 2 pi
RelativeUncertaintyHalfMeasured(r, std, flux, header) ==
    LET measured == NpDiv(NpMul(SurdOfRat(RatOfInt(r)), std), SurdOfRat(flux))
        calib == RatOfFrac(header.ERRCALF, header.CALFCTR)
    IN  NpSqrt(NpPlus(NpPlus(NpScale(PI, NpSquare(measured)), RatSq(calib)),
                      RatSq(ModelUncertainty)))

\* the formula below with the measured term left out when the flux is zero
RelativeUncertaintyOfCheckedFlux(r, std, flux, header) ==
    LET measured == IF flux.s = 0 THEN SurdOfRat(RatZero)
                    ELSE NpDiv(NpMul(SurdOfRat(RatOfInt(r)), std), SurdOfRat(flux))
        calib == RatOfFrac(header.ERRCALF, header.CALFCTR)
    IN  NpSqrt(NpPlus(NpPlus(NpScale(RatMul(RatOfInt(2), PI), NpSquare(measured)),
                             RatSq(calib)),
                      RatSq(ModelUncertainty)))

\* the formula below with the mean of the three terms under the root
RelativeUncertaintyOfMeanTerm(r, std, flux, header) ==
    LET measured == NpDiv(NpMul(SurdOfRat(RatOfInt(r)), std), SurdOfRat(flux))
        calib == RatOfFrac(header.ERRCALF, header.CALFCTR)
    IN  NpSqrt(NpScale(RatOfFrac(1, 3),
                       NpPlus(NpPlus(NpScale(RatMul(RatOfInt(2), PI),
                                             NpSquare(measured)),
                                     RatSq(calib)),
                              RatSq(ModelUncertainty))))

\* the formula below with the aperture radius left out of the measured term
RelativeUncertaintyOfUnitAperture(r, std, flux, header) ==
    LET measured == NpDiv(std, SurdOfRat(flux))
        calib == RatOfFrac(header.ERRCALF, header.CALFCTR)
    IN  NpSqrt(NpPlus(NpPlus(NpScale(RatMul(RatOfInt(2), PI), NpSquare(measured)),
                             RatSq(calib)),
                      RatSq(ModelUncertainty)))

\* np.sqrt(2 * np.pi * (r_ap * annulus_std / flux_background_subtracted) ** 2
\*         + (hdr["ERRCALF"] / hdr["CALFCTR"]) ** 2 + (0.05) ** 2)
\* for CALFCTR # 0
RelativeUncertaintyOf(r, std, flux, header) ==
    LET measured == NpDiv(NpMul(SurdOfRat(RatOfInt(r)), std), SurdOfRat(flux))
        calib == RatOfFrac(header.ERRCALF, header.CALFCTR)
    IN  NpSqrt(NpPlus(NpPlus(NpScale(RatMul(RatOfInt(2), PI), NpSquare(measured)),
                             RatSq(calib)),
                      RatSq(ModelUncertainty)))

\* print('relative uncertainty: ' + "{:.2f}".format(sigma_m*100) + '%')
RelativeLine(sigma) ==
    Line("relative uncertainty", 2, <<NpMul(sigma, SurdOfRat(RatOfInt(100)))>>)

\* the exception of hdr["ERRCALF"] / hdr["CALFCTR"]: a card that is missing
\* raises KeyError, and the header values are Python numbers, so a zero
\* CALFCTR raises ZeroDivisionError
HeaderError(header) ==
    IF ~({"ERRCALF", "CALFCTR"} \subseteq DOMAIN header) THEN "KeyError"
    ELSE IF header.CALFCTR = 0 THEN "ZeroDivisionError"
    ELSE "none"

\* cell 10 catching the exception: sigma_m is nan and the run goes on
RelativeUncertaintyGuarded ==
    /\ Running("relative")
    /\ LET sigma == IF HeaderError(hdr) # "none" THEN SurdNaN
                    ELSE RelativeUncertaintyOf(r_ap, annulus_std,
                                               flux_background_subtracted, hdr)
       IN  /\ sigma_m' = sigma
           /\ out' = Append(out, RelativeLine(sigma))
    /\ bound' = bound \cup {"sigma_m"}
    /\ pc' = "absolute"
    /\ UNCHANGED <<raised, loaded, options, apertured, annulus_aperture,
                   background, masked, absolute_uncertainty>>
    /\ UNCHANGED velocity

\* cell 10: sigma_m, printed in percent
RelativeUncertainty ==
    /\ Running("relative")
    /\ IF HeaderError(hdr) # "none"
       THEN /\ raised' = HeaderError(hdr)
            /\ UNCHANGED <<sigma_m, out, bound, pc>>
       ELSE LET sigma == RelativeUncertaintyOf(r_ap, annulus_std,
                                               flux_background_subtracted, hdr)
                warned == Warned(DivideErr(
                                    NpMul(SurdOfRat(RatOfInt(r_ap)), annulus_std),
                                    SurdOfRat(flux_background_subtracted)))
            IN  /\ sigma_m' = sigma
                /\ out' = out \o warned \o << RelativeLine(sigma) >>
                /\ bound' = bound \cup {"sigma_m"}
                /\ pc' = "absolute"
                /\ raised' = raised
    /\ UNCHANGED <<loaded, options, apertured, annulus_aperture,
                   background, masked, absolute_uncertainty>>
    /\ UNCHANGED velocity

\* the flux times sigma_m in percent
AbsoluteUncertaintyOfPercent(sigma, flux) ==
    NpMul(NpMul(sigma, SurdOfRat(RatOfInt(100))), SurdOfRat(flux))

\* the flux times the square of sigma_m
AbsoluteUncertaintyOfSquare(sigma, flux) ==
    NpMul(NpMul(sigma, sigma), SurdOfRat(flux))

\* sigma_m * flux_background_subtracted
AbsoluteUncertaintyOf(sigma, flux) == NpMul(sigma, SurdOfRat(flux))

\* cell 11 followed by the uncertainty cell once more
AbsoluteUncertaintyThenAgain ==
    /\ Running("absolute")
    /\ LET absolute == AbsoluteUncertaintyOf(sigma_m, flux_background_subtracted)
       IN  /\ absolute_uncertainty' = absolute
           /\ out' = Append(out,
                       Line("Final 5.6um flux w/ uncertainty", 6,
                            <<flux_background_subtracted, absolute>>))
    /\ bound' = bound \cup {"absolute_uncertainty"}
    /\ pc' = "relative"
    /\ UNCHANGED <<raised, loaded, options, apertured, annulus_aperture,
                   background, masked, sigma_m>>
    /\ UNCHANGED velocity

\* cell 11: the absolute uncertainty and the final line
AbsoluteUncertainty ==
    /\ Running("absolute")
    /\ LET absolute == AbsoluteUncertaintyOf(sigma_m, flux_background_subtracted)
           warned == Warned(MultiplyErr(sigma_m,
                                        SurdOfRat(flux_background_subtracted)))
       IN  /\ absolute_uncertainty' = absolute
           /\ out' = out \o warned
                         \o << Line("Final 5.6um flux w/ uncertainty", 6,
                                    <<flux_background_subtracted, absolute>>) >>
    /\ bound' = bound \cup {"absolute_uncertainty"}
    /\ pc' = "done"
    /\ UNCHANGED <<raised, loaded, options, apertured, annulus_aperture,
                   background, masked, sigma_m>>
    /\ UNCHANGED velocity

Next ==
    \/ LoadData
    \/ UserOptions
    \/ ApertureSum
    \/ DefineAnnulus
    \/ SubtractBackground
    \/ AnnulusStd
    \/ RelativeUncertainty
    \/ AbsoluteUncertainty

Spec == Init /\ [][Next]_vars
(***************************************************************************)
(* The photometry notebook run again, top to bottom, in a kernel that an   *)
(* earlier run has used: every name that run bound still holds its value.  *)
(* RunAll is what a top-to-bottom run leaves in a fresh kernel.            *)
(***************************************************************************)
RunAll(image, header, o, pos) ==
    LET d == << [data |-> image, header |-> header] >>
        got == get_aperture_sum(d, pos, o.r_ap)
        annulus == CircularAnnulus(pos, o.inner, o.outter)
        results == aperture_photometry(image, annulus)
        mean == MeanInAperture(results, annulus)
        flux == SubtractMean(got[1], mean)
        mask == to_mask(annulus)
        masked_data == multiply(mask, image)
        std == NpStd(masked_data)
        failed == HeaderError(header) # "none"
        sigma == IF failed THEN Unbound
                 ELSE RelativeUncertaintyOf(o.r_ap, std, flux, header)
    IN  [data |-> d, hdr |-> header, w |-> WCS(header),
         r_ap |-> o.r_ap, inner |-> o.inner, outter |-> o.outter,
         pos_pix |-> pos, sum_jy |-> got[1], pix_aperture |-> got[2],
         area |-> got[3], annulus_aperture |-> annulus,
         bkg_results |-> results, bkg_mean |-> mean, flux |-> flux,
         annulus_mask |-> mask, annulus_data |-> masked_data,
         annulus_std |-> std, sigma_m |-> sigma,
         absolute |-> IF failed THEN Unbound
                      ELSE AbsoluteUncertaintyOf(sigma, flux),
         raised |-> HeaderError(header)]

\* the earlier runs: one that finished, and one that stopped at the
\* uncertainty cell on a zero CALFCTR
EarlierRuns ==
    { RunAll(Image(1, 2, <<Centre, Centre>>, 0, FALSE),
             [CALFCTR |-> 1, ERRCALF |-> 1],
             [r_ap |-> 2, inner |-> 2, outter |-> 3],
             <<Unit * Centre, Unit * Centre>>),
      RunAll(Image(0, 1, <<0, Centre>>, 1, FALSE),
             [CALFCTR |-> 0, ERRCALF |-> 1],
             [r_ap |-> 1, inner |-> 2, outter |-> 3],
             <<Unit * Centre + SubPix, Unit * Centre>>) }

Names ==
    {"data", "hdr", "w", "r_ap", "background_aperture_inner_radius",
     "background_aperture_outter_radius", "pos", "pos_pix", "sum_jy",
     "pix_aperture", "area", "annulus_aperture", "bkg_results", "bkg_mean",
     "flux_background_subtracted", "annulus_mask", "annulus_data",
     "annulus_std", "sigma_m", "absolute_uncertainty"}

InitAgain ==
    /\ \E k \in EarlierRuns :
          /\ data = k.data /\ hdr = k.hdr /\ w = k.w
          /\ r_ap = k.r_ap
          /\ background_aperture_inner_radius = k.inner
          /\ background_aperture_outter_radius = k.outter
          /\ pos_pix = k.pos_pix /\ sum_jy = k.sum_jy
          /\ pix_aperture = k.pix_aperture /\ area = k.area
          /\ annulus_aperture = k.annulus_aperture
          /\ bkg_results = k.bkg_results /\ bkg_mean = k.bkg_mean
          /\ flux_background_subtracted = k.flux
          /\ annulus_mask = k.annulus_mask /\ annulus_data = k.annulus_data
          /\ annulus_std = k.annulus_std
          /\ sigma_m = k.sigma_m
          /\ absolute_uncertainty = k.absolute
          /\ bound = IF k.raised = "none" THEN Names
                     ELSE Names \ {"sigma_m", "absolute_uncertainty"}
    /\ pc = "load"
    /\ raised = "none"
    /\ out = <<>>
    /\ FreshVelocity("closed")

SpecAgain == InitAgain /\ [][Next]_vars

(***************************************************************************)
(* The recorded run of the photometry notebook, taken up before its last   *)
(* cell.  Its outputs give the flux to six decimals (52.810753) and the    *)
(* relative uncertainty to four (5.59%); the flux and sigma_m the kernel   *)
(* held are drawn from values about those.  What the outputs do not record *)
(* is left out.                                                            *)
(***************************************************************************)
MaxFluxStep == 5         \* fluxes 52.810753 + j * 10^-7, |j| <= MaxFluxStep
MaxEtaStep == 8          \* sigma_m 0.05591503 + i * 10^-8, |i| <= MaxEtaStep

NotRecorded == [kind |-> "not recorded"]

RecordedFluxes ==
    { RatOfFrac(528107530 + j, 10000000) : j \in -MaxFluxStep .. MaxFluxStep }

RecordedSigmas ==
    { RatOfFrac(5591503 + i, 100000000) : i \in -MaxEtaStep .. MaxEtaStep }
      \cup { RatOfFrac(k, 100000) : k \in {5000, 5585, 5590, 5595} }

InitRecorded ==
    /\ pc = "absolute"
    /\ raised = "none"
    /\ bound = {"data", "hdr", "w", "r_ap", "background_aperture_inner_radius",
                "background_aperture_outter_radius", "pos", "pos_pix", "sum_jy",
                "pix_aperture", "area", "annulus_aperture", "bkg_results",
                "bkg_mean", "flux_background_subtracted", "annulus_mask",
                "annulus_data", "annulus_std", "sigma_m"}
    /\ r_ap = 12
    /\ background_aperture_inner_radius = 15
    /\ background_aperture_outter_radius = 25
    /\ data = NotRecorded /\ hdr = NotRecorded /\ w = NotRecorded
    /\ pos_pix = NotRecorded /\ sum_jy = NotRecorded
    /\ pix_aperture = NotRecorded /\ area = NotRecorded
    /\ annulus_aperture = NotRecorded
    /\ bkg_results = NotRecorded
    /\ bkg_mean = << RatOfFrac(1054, 1000000) >>
    /\ annulus_mask = NotRecorded /\ annulus_data = NotRecorded
    /\ annulus_std = NotRecorded
    /\ \E flux \in RecordedFluxes, sigma \in RecordedSigmas :
          /\ flux_background_subtracted = flux
          /\ sigma_m = SurdOfRat(sigma)
          /\ out = BackgroundLines(bkg_mean, flux)
                     \o << RelativeLine(SurdOfRat(sigma)) >>
    /\ absolute_uncertainty = Unbound
    /\ FreshVelocity("closed")

NextRecorded == AbsoluteUncertainty

SpecRecorded == InitRecorded /\ [][NextRecorded]_vars

(***************************************************************************)
(* Runs of the photometry notebook with the recommended aperture (12       *)
(* pixels, annulus 15 -- 25), taken up before the uncertainty cell: the    *)
(* flux found, the annulus standard deviation and the calibration cards    *)
(* are drawn about a signal to noise of 300 and over the documented range  *)
(* of ERRCALF / CALFCTR, 1% to 10%.  The image is not kept.                *)
(***************************************************************************)
MaxSignalStep == 3       \* fluxes (3000 + j) * 0.1 sigma_B, |j| <= MaxSignalStep
MaxCalibrationPercent == 10

SignalFluxes ==
    { RatOfInt(sgn * k) :
        sgn \in {-1, 1},
        k \in {0, 10, 1000, 10000}
                \cup { 3000 + j : j \in -MaxSignalStep .. MaxSignalStep } }

InitSignal ==
    /\ pc = "relative"
    /\ raised = "none"
    /\ bound = Names \ {"sigma_m", "absolute_uncertainty"}
    /\ r_ap = 12
    /\ background_aperture_inner_radius = 15
    /\ background_aperture_outter_radius = 25
    /\ data = NotRecorded /\ w = NotRecorded
    /\ pos_pix = NotRecorded /\ sum_jy = NotRecorded
    /\ pix_aperture = NotRecorded /\ area = NotRecorded
    /\ annulus_aperture = NotRecorded
    /\ bkg_results = NotRecorded
    /\ bkg_mean = << RatZero >>
    /\ annulus_mask = NotRecorded /\ annulus_data = NotRecorded
    /\ annulus_std = Surd(1, RatOfInt(100))
    /\ \E flux \in SignalFluxes, percent \in 1 .. MaxCalibrationPercent :
          /\ flux_background_subtracted = flux
          /\ hdr = [CALFCTR |-> 100, ERRCALF |-> percent]
          /\ out = BackgroundLines(bkg_mean, flux)
    /\ sigma_m = Unbound
    /\ absolute_uncertainty = Unbound
    /\ FreshVelocity("closed")

NextSignal ==
    \/ RelativeUncertainty
    \/ AbsoluteUncertainty

SpecSignal == InitSignal /\ [][NextSignal]_vars

(***************************************************************************)
(* Runs with the user options as the notebook gives them (r_ap = 12,       *)
(* annulus 15.0 to 25.0), taken up before the annulus cell, for targets at *)
(* any place within a pixel.  The image is not kept.                       *)
(***************************************************************************)
MaxPixelStep == 1        \* targets in pixels 100 .. 100 + MaxPixelStep

DefaultPositions ==
    { <<Unit * cx + dx, Unit * cy + dy>> :
        cx \in 100 .. 100 + MaxPixelStep, cy \in 100 .. 100 + MaxPixelStep,
        dx \in 0 .. Unit - 1, dy \in 0 .. Unit - 1 }

InitDefault ==
    /\ pc = "annulus"
    /\ raised = "none"
    /\ bound = {"data", "hdr", "w", "r_ap", "background_aperture_inner_radius",
                "background_aperture_outter_radius", "pos", "pos_pix", "sum_jy",
                "pix_aperture", "area"}
    /\ r_ap = 12
    /\ background_aperture_inner_radius = 15
    /\ background_aperture_outter_radius = 25
    /\ hdr = [CALFCTR |-> 1, ERRCALF |-> 1]
    /\ data = << [data |-> NotRecorded, header |-> hdr] >>
    /\ w = WCS(hdr)
    /\ \E p \in DefaultPositions :
          /\ pos_pix = p
          /\ pix_aperture = CircularAperture(p, r_ap)
          /\ area = ApertureArea(CircularAperture(p, r_ap))
    /\ sum_jy = NotRecorded
    /\ annulus_aperture = Unbound
    /\ bkg_results = Unbound /\ bkg_mean = Unbound
    /\ flux_background_subtracted = Unbound
    /\ annulus_mask = Unbound /\ annulus_data = Unbound
    /\ annulus_std = Unbound
    /\ sigma_m = Unbound
    /\ absolute_uncertainty = Unbound
    /\ out = <<>>
    /\ FreshVelocity("closed")

NextDefault == DefineAnnulus

SpecDefault == InitDefault /\ [][NextDefault]_vars

(***************************************************************************)
(* The velocity notebook.  An astropy Quantity is a value with its unit;   *)
(* the velocities here are in m/s or km/s.                                 *)
(***************************************************************************)
MaxVSys == 2             \* v_sys is 15 * k km/s for k in -MaxVSys .. MaxVSys
MaxWind == 1             \* the wind is 10 * k km/s for k in -MaxWind .. MaxWind
MaxCorr == 3             \* the library's corrections, see Corrections

Quantity(value, unit) == [value |-> value, unit |-> unit]

\* the number of m/s in one `unit`
MetresPerSecond(unit) == IF unit = "km / s" THEN 1000 ELSE 1

\* a quantity given a new unit with its value left as it was
Relabelled(q, unit) == Quantity(q.value, unit)

\* q.to(unit)
To(q, unit) ==
    Quantity(RatMul(q.value,
                    RatOfFrac(MetresPerSecond(q.unit), MetresPerSecond(unit))),
             unit)

\* a - b: astropy converts b to the unit of a
QuantitySub(a, b) == Quantity(RatSub(a.value, To(b, a.unit).value), a.unit)
QuantityAdd(a, b) == Quantity(RatAdd(a.value, To(b, a.unit).value), a.unit)

\* do two quantities measure the same velocity
SameVelocity(a, b) == RatEq(To(a, "m / s").value, To(b, "m / s").value)

\* the targets: SkyCoord(...) of the notebook and others
Targets == {"09:10:38.7978379 +30:57:47.295961", "other"}

\* coords.radial_velocity_correction(kind="heliocentric", ...): a velocity in
\* m/s that depends on the target, the time and the site, within about
\* 30 km/s of zero; in the recorded run -12249.35759 m/s, which the
\* notebook shows as -12249.358
Corrections ==
    { Quantity(RatOfFrac(k * 12249358, 1000), "m / s") :
        k \in -MaxCorr .. MaxCorr }
      \cup { Quantity(RatOfFrac(-1224935759, 100000), "m / s") }

\* cell 2: observation_time, v_sys, observation_location, coords.  The wind
\* of the target is fixed by the target; the cell does not ask for it.
VelocityInputs ==
    /\ vpc = "inputs"
    /\ \E k \in -MaxVSys .. MaxVSys, t \in Targets, j \in -MaxWind .. MaxWind :
          /\ v_sys' = Quantity(RatOfInt(15 * k), "km / s")
          /\ coords' = t
          /\ v_wind' = Quantity(RatOfInt(10 * j), "km / s")
    /\ vpc' = "correct"
    /\ UNCHANGED <<vgeo, v_corrected, shown>>
    /\ UNCHANGED <<pc, raised, bound, out, loaded, options, apertured,
                   annulus_aperture, background, masked, sigma_m,
                   absolute_uncertainty>>

\* v_sys + vgeo
CorrectedVelocityAdded(sys, geo) == QuantityAdd(sys, geo)

\* v_sys - vgeo
CorrectedVelocity(sys, geo) == QuantitySub(sys, geo)

\* cell 3: vgeo = coords.radial_velocity_correction(...).to(u.km / u.s)
\*         v_corrected = v_sys - vgeo
VelocityCorrection ==
    /\ vpc = "correct"
    /\ \E c \in Corrections :
          LET geo == To(c, "km / s")
          IN  /\ vgeo' = geo
              /\ v_corrected' = CorrectedVelocity(v_sys, geo)
    /\ vpc' = "show"
    /\ UNCHANGED <<v_sys, coords, v_wind, shown>>
    /\ UNCHANGED <<pc, raised, bound, out, loaded, options, apertured,
                   annulus_aperture, background, masked, sigma_m,
                   absolute_uncertainty>>

\* cell 4: v_corrected, displayed with its unit
VelocityShown ==
    /\ vpc = "show"
    /\ shown' = Line(v_corrected.unit, 6, <<v_corrected.value>>)
    /\ vpc' = "done"
    /\ UNCHANGED <<v_sys, coords, v_wind, vgeo, v_corrected>>
    /\ UNCHANGED <<pc, raised, bound, out, loaded, options, apertured,
                   annulus_aperture, background, masked, sigma_m,
                   absolute_uncertainty>>

\* the velocity notebook is opened and run; the photometry notebook is not
InitVelocity == Fresh("closed") /\ FreshVelocity("inputs")

NextVelocity ==
    \/ VelocityInputs
    \/ VelocityCorrection
    \/ VelocityShown

SpecVelocity == InitVelocity /\ [][NextVelocity]_vars

(***************************************************************************)
(* The properties claimed of the notebooks.                                *)
(***************************************************************************)
\* C1: whenever the uncertainty cell has bound sigma_m for a non-zero
\* background-subtracted flux and a non-zero CALFCTR, sigma_m is the
\* non-negative number whose square is
\*   2 pi (r_ap annulus_std / flux_background_subtracted)^2
\*     + (ERRCALF / CALFCTR)^2 + 0.0025
RelativeUncertaintySquared ==
    ("sigma_m" \in bound /\ flux_background_subtracted.s # 0 /\ hdr.CALFCTR # 0)
    => /\ sigma_m.kind = "fin"
       /\ sigma_m.sgn = 1
       /\ RatEq(sigma_m.sq,
                RatAdd(RatAdd(RatMul(RatMul(RatOfInt(2), PI),
                                     RatDiv(RatMul(RatOfInt(r_ap * r_ap),
                                                   annulus_std.sq),
                                            RatSq(flux_background_subtracted))),
                              RatOfFrac(hdr.ERRCALF * hdr.ERRCALF,
                                        hdr.CALFCTR * hdr.CALFCTR)),
                       RatOfFrac(25, 10000)))

\* C1's case: sigma_m is bound with all three terms at work
RelativeUncertaintyComputed ==
    /\ "sigma_m" \in bound
    /\ flux_background_subtracted.s # 0
    /\ annulus_std.sgn # 0
    /\ hdr.ERRCALF # 0

\* C2: once the background cell has run, flux_background_subtracted is the
\* aperture sum less the background mean times the aperture's area
FluxIsSumLessBackgroundOverAperture ==
    "flux_background_subtracted" \in bound
    => RatEq(flux_background_subtracted,
             RatSub(sum_jy[1], RatMul(bkg_mean[1], area)))

\* the flux the aperture and background cells give for an image
FluxOf(image, pos, r, r_in, r_out) ==
    LET d == << [data |-> image] >>
        annulus == CircularAnnulus(pos, r_in, r_out)
    IN  SubtractMean(get_aperture_sum(d, pos, r)[1],
                     MeanInAperture(aperture_photometry(image, annulus), annulus))

\* C3: once the background cell has run, the flux it found is also the flux
\* of the image with c added to every pixel, for every c
FluxUnchangedByUniformBackground ==
    "flux_background_subtracted" \in bound
    => \A c \in 1 .. MaxBkg :
          RatEq(flux_background_subtracted,
                FluxOf([px \in Pixels |-> data[1].data[px] + c], pos_pix, r_ap,
                       background_aperture_inner_radius,
                       background_aperture_outter_radius))

\* C4: once the standard-deviation cell has run, annulus_std is the standard
\* deviation of the image's pixels under the annulus mask and of nothing
\* else: sqrt(sum((n F - total)^2) / n^3) over those n pixels
AnnulusStdIsOfAnnulusPixelsOnly ==
    "annulus_std" \in bound
    => LET box == DOMAIN annulus_mask
           image == data[1].data
           inside == { px \in box \cap Pixels : annulus_mask[px] = 1 }
           n == Cardinality(inside)
           total == SumFn([px \in box |-> IF px \in inside THEN image[px] ELSE 0],
                          box)
           dev2 == SumFn([px \in box |->
                            IF px \in inside
                            THEN (n * image[px] - total) * (n * image[px] - total)
                            ELSE 0],
                         box)
       IN  /\ annulus_std.kind = "fin"
           /\ RatEq(annulus_std.sq, RatOfFrac(dev2, n * n * n))

\* the flux summed within the circle of radius r about pos
CircleSum(image, pos, r) == aperture_photometry(image, CircularAperture(pos, r))[1]

\* C5: once the background cell has run, bkg_mean times the area
\* pi (r_out^2 - r_in^2) of the annulus is the flux within the annulus: the
\* flux within the outer circle less the flux within the inner circle
BackgroundMeanIsAnnulusSumOverArea ==
    "bkg_mean" \in bound
    => RatEq(RatMul(bkg_mean[1],
                    RatMul(PI, RatOfInt(background_aperture_outter_radius
                                          * background_aperture_outter_radius
                                        - background_aperture_inner_radius
                                          * background_aperture_inner_radius))),
             RatSub(CircleSum(data[1].data, pos_pix,
                              background_aperture_outter_radius),
                    CircleSum(data[1].data, pos_pix,
                              background_aperture_inner_radius)))

\* C5's case: the background cell has found a non-zero mean
BackgroundMeanFound == "bkg_mean" \in bound /\ bkg_mean[1].s # 0

\* the distance along one axis from c to the interval lo .. hi
Gap(c, lo, hi) == IF c < lo THEN lo - c ELSE IF c > hi THEN c - hi ELSE 0

\* every corner of pixel px is within r of pos
WhollyInside(px, pos, r) ==
    \A dx \in {-SubPix, SubPix}, dy \in {-SubPix, SubPix} :
        (Unit * px[1] + dx - pos[1]) * (Unit * px[1] + dx - pos[1])
          + (Unit * px[2] + dy - pos[2]) * (Unit * px[2] + dy - pos[2])
        <= (Unit * r) * (Unit * r)

\* no point of pixel px is nearer than r to pos
WhollyOutside(px, pos, r) ==
    LET gx == Gap(pos[1], Unit * px[1] - SubPix, Unit * px[1] + SubPix)
        gy == Gap(pos[2], Unit * px[2] - SubPix, Unit * px[2] + SubPix)
    IN  gx * gx + gy * gy >= (Unit * r) * (Unit * r)

\* C6: once the aperture cell has run, pix_aperture is the circle of radius
\* r_ap about pos_pix, area is pi r_ap^2, and sum_jy is the sum of the pixels
\* of data[0].data in that circle: every pixel wholly inside it counted in
\* full, every pixel wholly outside it not at all, and each pixel on its
\* edge for between nothing and its full value
ApertureSumIsOfCircle ==
    "sum_jy" \in bound
    => LET image == data[1].data
           weighed(lo, hi) ==
               SumFn([px \in Pixels |->
                        IF WhollyInside(px, pos_pix, r_ap) THEN image[px]
                        ELSE IF WhollyOutside(px, pos_pix, r_ap) THEN 0
                        ELSE IF image[px] < 0 THEN lo * image[px]
                        ELSE hi * image[px]],
                     Pixels)
       IN  /\ pix_aperture = CircularAperture(pos_pix, r_ap)
           /\ RatEq(area, RatMul(PI, RatOfInt(r_ap * r_ap)))
           /\ RatLe(RatOfInt(weighed(1, 0)), sum_jy[1])
           /\ RatLe(sum_jy[1], RatOfInt(weighed(0, 1)))

\* C6's case: the aperture sum of an image that is not flat, some of it
\* in the circle and non-zero
ApertureSumTaken ==
    /\ "sum_jy" \in bound
    /\ sum_jy[1].s # 0
    /\ \E px \in Pixels : data[1].data[px] # data[1].data[<<0, 0>>]

\* C7: whenever sigma_m is bound for a non-zero flux, the measurement term of
\* its square, sigma_m^2 - (ERRCALF / CALFCTR)^2 - 0.0025, times the square
\* of the flux is 2 area annulus_std^2, area being the aperture area that
\* get_aperture_sum returned
MeasurementTermIsTwoAreaVariance ==
    ("sigma_m" \in bound /\ flux_background_subtracted.s # 0)
    => /\ sigma_m.kind = "fin"
       /\ RatEq(RatMul(RatSub(RatSub(sigma_m.sq,
                                     RatOfFrac(hdr.ERRCALF * hdr.ERRCALF,
                                               hdr.CALFCTR * hdr.CALFCTR)),
                              RatOfFrac(25, 10000)),
                       RatSq(flux_background_subtracted)),
                RatMul(RatMul(RatOfInt(2), area), annulus_std.sq))

\* C7's case: a measurement term that is not zero, for the wider aperture
MeasurementTermAtWork ==
    /\ "sigma_m" \in bound
    /\ flux_background_subtracted.s # 0
    /\ annulus_std.sgn # 0
    /\ r_ap = 2

\* C8: once the last cell has run, absolute_uncertainty is sigma_m times
\* flux_background_subtracted (as float64 multiplies: a non-finite sigma_m
\* gives a non-finite product), and the last line printed holds that flux
\* and that uncertainty
AbsoluteIsRelativeTimesFlux ==
    "absolute_uncertainty" \in bound
    => /\ CASE sigma_m.kind = "fin" ->
                 /\ absolute_uncertainty.kind = "fin"
                 /\ absolute_uncertainty.sgn
                      = sigma_m.sgn * flux_background_subtracted.s
                 /\ RatEq(absolute_uncertainty.sq,
                          RatMul(sigma_m.sq, RatSq(flux_background_subtracted)))
            [] sigma_m.kind = "inf" /\ flux_background_subtracted.s # 0 ->
                 absolute_uncertainty
                   = SurdInf(sigma_m.sgn * flux_background_subtracted.s)
            [] OTHER -> absolute_uncertainty.kind = "nan"
       /\ out[Len(out)] = Line("Final 5.6um flux w/ uncertainty", 6,
                               <<flux_background_subtracted,
                                 absolute_uncertainty>>)

\* C8's case: the last cell has run on a finite sigma_m and a negative flux
AbsoluteUncertaintyReported ==
    /\ pc = "done"
    /\ sigma_m.kind = "fin"
    /\ flux_background_subtracted.s = -1

\* a printed number, as the integer its digits spell: 52.810753 is 52810753
Reads(v) == Text("fin", v)

\* C9: in the recorded run, when the flux printed is 52.810753, (a) if the
\* final line's uncertainty reads 2.952915 then the relative uncertainty
\* printed is 5.59% and sigma_m is in [0.05585, 0.05595) and at least 0.05,
\* and (b) if the relative uncertainty printed is 5.59% then the absolute
\* uncertainty is eta times the flux for an eta in [0.05585, 0.05595]
RecordedOutputsConsistent ==
    (pc = "done" /\ Printed(out[2])[1] = Reads(52810753))
    => LET eta2 == sigma_m.sq
           low2 == RatSq(RatOfFrac(5585, 100000))
           high2 == RatSq(RatOfFrac(5595, 100000))
           flux2 == RatSq(flux_background_subtracted)
       IN  /\ Printed(out[4])[2] = Reads(2952915)
                => /\ Printed(out[3])[1] = Reads(559)
                   /\ RatLe(low2, eta2) /\ RatLt(eta2, high2)
                   /\ RatLe(RatSq(RatOfFrac(5, 100)), eta2)
           /\ Printed(out[3])[1] = Reads(559)
                => /\ absolute_uncertainty.kind = "fin"
                   /\ RatLe(RatMul(low2, flux2), absolute_uncertainty.sq)
                   /\ RatLe(absolute_uncertainty.sq, RatMul(high2, flux2))

\* C9's case: a run that printed the three recorded outputs
RecordedOutputsPrinted ==
    /\ pc = "done"
    /\ Printed(out[2])[1] = Reads(52810753)
    /\ Printed(out[3])[1] = Reads(559)
    /\ Printed(out[4]) = <<Reads(52810753), Reads(2952915)>>

\* C10 as claimed: once the correction cell has run, v_corrected is the
\* systemic velocity less the heliocentric correction plus the target's
\* wind/expansion velocity
CorrectedVelocityIncludesWind ==
    vpc \in {"show", "done"}
    => SameVelocity(v_corrected,
                    QuantityAdd(QuantitySub(v_sys, vgeo), v_wind))

\* C10 amended: once the correction cell has run, v_corrected holds no wind
\* term: the shift expected of the target, v_sys - vgeo + v_wind, exceeds
\* v_corrected by exactly the wind, which is left for the user to add
CorrectedVelocityLeavesWindOut ==
    vpc \in {"show", "done"}
    => SameVelocity(QuantitySub(QuantityAdd(QuantitySub(v_sys, vgeo), v_wind),
                                v_corrected),
                    v_wind)

\* C10's case: the notebook has run for a target with a wind, at a time when
\* the heliocentric correction is not zero
CorrectedVelocityOfWindyTarget ==
    /\ vpc = "done"
    /\ v_wind.value.s # 0
    /\ vgeo.value.s # 0

\* C11: once the correction cell has run, vgeo is one correction of the
\* library, in km/s (a thousandth of its value in m/s), v_corrected is in
\* km/s, and v_corrected + vgeo = v_sys; and when v_sys is 15 km/s and the
\* notebook shows 27.249358, vgeo to six decimals is -12.249358
CorrectedPlusCorrectionIsSystemic ==
    vpc \in {"show", "done"}
    => /\ vgeo.unit = "km / s"
       /\ v_corrected.unit = "km / s"
       /\ \E c \in Corrections :
             c.unit = "m / s"
             /\ RatEq(RatMul(vgeo.value, RatOfInt(1000)), c.value)
       /\ RatEq(RatAdd(v_corrected.value, vgeo.value), v_sys.value)
       /\ (RatEq(v_sys.value, RatOfInt(15))
             /\ FormatRat(v_corrected.value, 6) = Reads(27249358))
          => FormatRat(vgeo.value, 6) = Reads(-12249358)

\* C11's case: the recorded run, v_sys = 15 km/s and 27.249358 shown
RecordedVelocityShown ==
    /\ vpc = "done"
    /\ RatEq(v_sys.value, RatOfInt(15))
    /\ Printed(shown)[1] = Reads(27249358)
    /\ ~RatEq(vgeo.value, RatOfFrac(-12249358, 1000000))

\* are two float64 values the same
SameValue(a, b) == a.kind = b.kind /\ a.sgn = b.sgn /\ RatEq(a.sq, b.sq)

\* C12: in a run in a used kernel, once a cell has produced its result the
\* result is what a fresh kernel gives for the run's own image, header,
\* position and radii, whatever the earlier run left behind
ResultsDependOnInputsOnly ==
    pc \in {"std", "relative", "absolute", "done"}
    => LET fresh == RunAll(data[1].data, hdr,
                           [r_ap |-> r_ap,
                            inner |-> background_aperture_inner_radius,
                            outter |-> background_aperture_outter_radius],
                           pos_pix)
       IN  /\ RatEq(flux_background_subtracted, fresh.flux)
           /\ pc \in {"absolute", "done"} => SameValue(sigma_m, fresh.sigma_m)
           /\ pc = "done" => SameValue(absolute_uncertainty, fresh.absolute)

\* C12's case: a run has finished in a kernel whose earlier run left a
\* different flux and a different sigma_m than this run's
RerunFinished ==
    /\ pc = "done"
    /\ \E k \in EarlierRuns :
          /\ k.raised = "none"
          /\ ~RatEq(k.flux, flux_background_subtracted)
          /\ ~SameValue(k.sigma_m, sigma_m)

\* the names and values the photometry kernel holds
kernel == <<bound, loaded, options, apertured, annulus_aperture, background,
            masked, sigma_m, absolute_uncertainty>>

\* what a run that an exception stopped has not produced
NothingAfter(exception) ==
    CASE exception = "FileNotFoundError" ->
           bound = {} /\ out = <<>> /\ pc = "load"
      [] exception = "ValueError" ->
           /\ pc = "annulus"
           /\ background_aperture_outter_radius
                <= background_aperture_inner_radius
           /\ bound \cap {"annulus_aperture", "flux_background_subtracted",
                          "annulus_std", "sigma_m", "absolute_uncertainty"} = {}
           /\ flux_background_subtracted = Unbound
           /\ sigma_m = Unbound /\ absolute_uncertainty = Unbound
           /\ out = <<>>
      [] exception \in {"KeyError", "ZeroDivisionError"} ->
           /\ pc = "relative"
           /\ bound \cap {"sigma_m", "absolute_uncertainty"} = {}
           /\ sigma_m = Unbound /\ absolute_uncertainty = Unbound
           /\ Len(out) = 2
      [] OTHER -> FALSE

\* C13: an exception stops the run where it is raised.  (a) A run stopped by
\* an exception has produced nothing that comes later; (b) a run that got
\* past the annulus cell had r_out > r_in, and one that got past the
\* uncertainty cell had both header cards and a non-zero CALFCTR; (c) the
\* step that raises leaves every name of the kernel and the output as they
\* were; (d) after an exception no step is taken, so none is tried again.
ExceptionStopsTheRun ==
    /\ [](raised # "none" => NothingAfter(raised))
    /\ [](pc \in {"background", "std", "relative", "absolute", "done"}
            => background_aperture_outter_radius
                 > background_aperture_inner_radius)
    /\ [](pc \in {"absolute", "done"}
            => /\ {"ERRCALF", "CALFCTR"} \subseteq DOMAIN hdr
               /\ hdr.CALFCTR # 0)
    /\ [][raised' # "none" => UNCHANGED <<kernel, out, pc>>]_vars
    /\ [][raised = "none"]_vars

\* C13's case: a run stopped at the uncertainty cell by a missing card, with
\* the flux already found
RunStoppedByException ==
    /\ raised = "KeyError"
    /\ "flux_background_subtracted" \in bound

\* the measurement term of a finite sigma_m:
\* sigma_m^2 - (ERRCALF / CALFCTR)^2 - 0.0025
MeasurementTerm ==
    RatSub(RatSub(sigma_m.sq,
                  RatOfFrac(hdr.ERRCALF * hdr.ERRCALF, hdr.CALFCTR * hdr.CALFCTR)),
           RatOfFrac(25, 10000))

\* C14: with r_ap = 12 and ERRCALF / CALFCTR from 1% to 10%, whenever the
\* signal to noise |flux| / annulus_std is below 300, the measurement term of
\* sigma_m^2 is larger than 0.0025 and larger than (ERRCALF / CALFCTR)^2
\* (for a flux of zero sigma_m is +inf, the measurement term being infinite)
MeasurementTermDominatesBelow300 ==
    (/\ pc \in {"absolute", "done"}
     /\ r_ap = 12
     /\ annulus_std.sgn = 1
     /\ RatLt(RatSq(flux_background_subtracted),
              RatMul(RatOfInt(300 * 300), annulus_std.sq))
     /\ hdr.ERRCALF * 100 >= hdr.CALFCTR
     /\ hdr.ERRCALF * 10 <= hdr.CALFCTR)
    => IF flux_background_subtracted.s = 0 THEN sigma_m = SurdInf(1)
       ELSE /\ sigma_m.kind = "fin"
            /\ RatLt(RatOfFrac(25, 10000), MeasurementTerm)
            /\ RatLt(RatOfFrac(hdr.ERRCALF * hdr.ERRCALF,
                               hdr.CALFCTR * hdr.CALFCTR),
                     MeasurementTerm)

\* C14's case: a signal to noise of 299.9 with a calibration error of 10%
SignalJustBelow300 ==
    /\ pc = "done"
    /\ r_ap = 12
    /\ annulus_std = Surd(1, RatOfInt(100))
    /\ RatEq(flux_background_subtracted, RatOfInt(2999))
    /\ hdr.ERRCALF * 10 = hdr.CALFCTR

\* the cells in the order of the notebook
CellOrder ==
    << "load", "options", "aperture", "annulus", "background", "std",
       "relative", "absolute", "done" >>

\* the names a cell reads
ReadBy(cell) ==
    CASE cell = "aperture" -> {"w", "data", "r_ap"}
      [] cell = "annulus" ->
           {"data", "pos_pix", "background_aperture_inner_radius",
            "background_aperture_outter_radius"}
      [] cell = "background" -> {"data", "annulus_aperture", "sum_jy"}
      [] cell = "std" -> {"annulus_aperture", "data"}
      [] cell = "relative" ->
           {"r_ap", "annulus_std", "flux_background_subtracted", "hdr"}
      [] cell = "absolute" -> {"sigma_m", "flux_background_subtracted"}
      [] OTHER -> {}

\* C15: in a top-to-bottom run in a fresh kernel, (a) every step either runs
\* the cell the run has reached and moves on to the next cell of the
\* notebook, or raises; so the cells run in the notebook's order, each once;
\* (b) every name the cell about to run reads has been bound by then;
\* (c) a finished run has printed the relative uncertainty exactly once.
CellsRunInOrderOnBoundNames ==
    /\ [][\/ raised' # "none"
          \/ \E i \in 1 .. Len(CellOrder) - 1 :
                pc = CellOrder[i] /\ pc' = CellOrder[i + 1]]_vars
    /\ [](raised = "none"
            => ReadBy(pc) \subseteq bound)
    /\ [](pc = "done"
            => Cardinality({ i \in 1 .. Len(out) :
                               out[i].line = "relative uncertainty" }) = 1)

\* C15's case: a run that has gone through every cell
RunFinished ==
    /\ pc = "done"
    /\ raised = "none"
    /\ Names \ {"pos"} \subseteq bound
    /\ Len(out) = 4

\* some of pixel px is within the circle of radius r about pos
Touches(px, pos, r) == ~WhollyOutside(px, pos, r)

\* C16: with the notebook's user options, once the annulus cell has run the
\* aperture and the annulus are centred on pos_pix with
\* r_ap < r_in < r_out, and no pixel has a part in the aperture and a part
\* in the annulus, so none is given weight in both sums
ApertureAndAnnulusDisjoint ==
    (pc = "background" /\ r_ap = 12 /\ background_aperture_inner_radius = 15
       /\ background_aperture_outter_radius = 25)
    => /\ pix_aperture.pos = pos_pix
       /\ annulus_aperture.pos = pos_pix
       /\ pix_aperture.r < annulus_aperture.r_in
       /\ annulus_aperture.r_in < annulus_aperture.r_out
       /\ \A px \in BoundingBox(annulus_aperture) :
             /\ ~(/\ Touches(px, pix_aperture.pos, pix_aperture.r)
                  /\ Touches(px, annulus_aperture.pos, annulus_aperture.r_out)
                  /\ ~WhollyInside(px, annulus_aperture.pos,
                                   annulus_aperture.r_in))
             /\ ~(/\ Overlap(px, pix_aperture) > 0
                  /\ Overlap(px, annulus_aperture) > 0)

\* C16's case: the annulus defined with the notebook's options about a
\* target that is not at the centre of a pixel
DefaultAnnulusDefined ==
    /\ pc = "background"
    /\ annulus_aperture = CircularAnnulus(pos_pix, 15, 25)
    /\ pix_aperture.r = 12
    /\ pos_pix[1] % Unit # 0

\* C17: once the file is loaded no cell changes the image array or the
\* header: data[0].data and hdr are after every step what they were before
\* it, and hdr remains the header of data[0]
LoadedDataNeverModified ==
    /\ [][pc # "load" => (data' = data /\ hdr' = hdr)]_vars
    /\ []((pc # "load" /\ "hdr" \in bound) => data[1].header = hdr)

\* C17's case: a finished run over an image with a source pixel that the
\* annulus mask covers with 0
MaskedPixelKept ==
    /\ pc = "done" /\ raised = "none"
    /\ \E px \in Pixels \cap DOMAIN annulus_mask :
          annulus_mask[px] = 0 /\ data[1].data[px] # 0

\* a finite non-negative a is strictly below a finite non-negative b
SurdLt(a, b) ==
    /\ a.kind = "fin" /\ b.kind = "fin"
    /\ a.sgn >= 0 /\ b.sgn >= 0
    /\ RatLt(a.sq, b.sq)

\* C18: with annulus_std > 0, a flux other than zero and the header's
\* calibration values held fixed, the relative uncertainty is strictly larger
\* for every wider aperture radius, strictly smaller for every flux of larger
\* magnitude (of either sign) and strictly larger for one of smaller magnitude
UncertaintyGrowsWithRadiusFallsWithFlux ==
    (/\ pc \in {"absolute", "done"}
     /\ annulus_std.kind = "fin" /\ annulus_std.sgn = 1
     /\ flux_background_subtracted.s # 0)
    => /\ sigma_m = RelativeUncertaintyOf(r_ap, annulus_std,
                                          flux_background_subtracted, hdr)
       /\ \A k \in 1 .. MaxGrow :
             /\ SurdLt(sigma_m,
                       RelativeUncertaintyOf(r_ap + k, annulus_std,
                                             flux_background_subtracted, hdr))
             /\ \A sgn \in {-1, 1} :
                   /\ SurdLt(RelativeUncertaintyOf(
                                 r_ap, annulus_std,
                                 RatMul(RatOfFrac(sgn * (k + 1), k),
                                        flux_background_subtracted), hdr),
                             sigma_m)
                   /\ SurdLt(sigma_m,
                             RelativeUncertaintyOf(
                                 r_ap, annulus_std,
                                 RatMul(RatOfFrac(sgn * k, k + 1),
                                        flux_background_subtracted), hdr))

\* C18's case: sigma_m of a negative flux in a noisy annulus
UncertaintyOfNegativeFlux ==
    /\ pc = "done"
    /\ annulus_std.kind = "fin" /\ annulus_std.sgn = 1
    /\ flux_background_subtracted.s = -1
    /\ sigma_m.kind = "fin"
    /\ r_ap = 2

\* C19: whenever sigma_m is computed from a flux other than zero (CALFCTR is
\* then not zero), it is finite, not negative and at least each of 0.05,
\* |ERRCALF / CALFCTR| and sqrt(2 pi) r_ap annulus_std / |flux|; the bounds
\* are compared by their squares
UncertaintyAtLeastEachTerm ==
    (/\ pc \in {"absolute", "done"}
     /\ flux_background_subtracted.s # 0)
    => /\ hdr.CALFCTR # 0
       /\ sigma_m.kind = "fin" /\ sigma_m.sgn = 1
       /\ annulus_std.kind = "fin"
       /\ RatLe(RatSq(ModelUncertainty), sigma_m.sq)
       /\ RatLe(RatSq(RatOfFrac(hdr.ERRCALF, hdr.CALFCTR)), sigma_m.sq)
       /\ RatLe(RatDiv(RatMul(RatMul(RatOfInt(2), PI),
                              RatMul(RatOfInt(r_ap * r_ap), annulus_std.sq)),
                       RatSq(flux_background_subtracted)),
                sigma_m.sq)

\* C19's case: sigma_m with a measured term and a calibration term that are
\* both above zero, the calibration term above the model's
ThreeTermsAtWork ==
    /\ pc = "done"
    /\ flux_background_subtracted.s # 0
    /\ annulus_std.kind = "fin" /\ annulus_std.sgn = 1
    /\ hdr.ERRCALF > 0
    /\ sigma_m.kind = "fin"
    /\ RatLt(RatSq(ModelUncertainty), RatSq(RatOfFrac(hdr.ERRCALF, hdr.CALFCTR)))

\* the uncertainty cell has been run, to its end or to an exception
RelativeCellRun ==
    \/ pc \in {"absolute", "done"}
    \/ pc = "relative" /\ raised # "none"

\* sigma_m is bound to a finite number
FiniteSigma == "sigma_m" \in bound /\ sigma_m.kind = "fin"

\* C20: for a header that has both cards, once the uncertainty cell has been
\* run sigma_m is a finite number if and only if the flux is not zero and
\* CALFCTR is not zero; neither is tested before the divisions: a zero
\* CALFCTR reaches the division and raises ZeroDivisionError, and a zero flux
\* is divided by, giving +inf or nan with no exception
SigmaFiniteIffFluxAndFactorNotZero ==
    (RelativeCellRun /\ {"ERRCALF", "CALFCTR"} \subseteq DOMAIN hdr)
    => /\ FiniteSigma <=> (flux_background_subtracted.s # 0 /\ hdr.CALFCTR # 0)
       /\ hdr.CALFCTR = 0 => raised = "ZeroDivisionError"
       /\ (hdr.CALFCTR # 0 /\ flux_background_subtracted.s = 0)
             => /\ raised = "none"
                /\ sigma_m \in {SurdInf(1), SurdNaN}

\* C20's case: the cell run on a flux of zero in a flat annulus, 0 / 0
ZeroFluxDivided ==
    /\ pc = "done"
    /\ hdr.CALFCTR # 0
    /\ flux_background_subtracted.s = 0
    /\ annulus_std.sgn = 0
    /\ sigma_m = SurdNaN

\* the uncertainty cell run, to its end or to an exception, on a flux of
\* exactly zero in an annulus with annulus_std > 0
ZeroFluxNoisyAnnulus ==
    /\ RelativeCellRun
    /\ flux_background_subtracted.s = 0
    /\ annulus_std.kind = "fin" /\ annulus_std.sgn = 1

\* the printed output holds no warning
NoWarning == \A i \in 1 .. Len(out) : out[i].line # "RuntimeWarning"

\* the uncertainty cell completed with sigma_m = +inf and no warning, and the
\* final cell is not stopped: once run it reports nan as the absolute
\* uncertainty
NonFiniteReported ==
    /\ raised = "none"
    /\ "sigma_m" \in bound /\ sigma_m = SurdInf(1)
    /\ NoWarning
    /\ pc = "absolute" => Running("absolute")
    /\ pc = "done"
          => /\ absolute_uncertainty = SurdNaN
             /\ out[Len(out)].line = "Final 5.6um flux w/ uncertainty"
             /\ Printed(out[Len(out)])[2] = Text("nan", 0)
             /\ Printed(out[Len(out) - 1]) = << Text("inf", 1) >>

\* C21 as stated: whenever the flux is exactly 0 and annulus_std > 0, the
\* uncertainty cell raises no error and shows no warning, completes with a
\* non-finite sigma_m, and the final cell reports a non-finite absolute
\* uncertainty instead of stopping
ZeroFluxNeverStopsTheRun == ZeroFluxNoisyAnnulus => NonFiniteReported

\* C21 amended: the same for a header that holds both cards with CALFCTR not
\* zero; a zero CALFCTR raises ZeroDivisionError and a missing card KeyError
\* in the uncertainty cell, whatever the flux, and the run stops there
ZeroFluxPassesWithCalibratedHeader ==
    ZeroFluxNoisyAnnulus
    => IF HeaderError(hdr) = "none" THEN NonFiniteReported
       ELSE /\ pc = "relative" /\ raised = HeaderError(hdr)
            /\ "sigma_m" \notin bound
            /\ NoWarning

\* C21's case: the run finished on a zero flux in a noisy annulus, "inf%"
\* and "+/- nan" printed
InfiniteUncertaintyPrinted ==
    /\ pc = "done"
    /\ ZeroFluxNoisyAnnulus
    /\ sigma_m = SurdInf(1)
    /\ absolute_uncertainty = SurdNaN
    /\ Len(out) = 4
=============================================================================
